---- MODULE Spec2Model ----
(***************************************************************************)
(* singularity-sync (src/src/main.rs): the incremental sync engine.        *)
(* One sync_manifest run walks the manifest; for every image it checks     *)
(* the target directory, scans it for the high-water mark, pages through   *)
(* the registry's tag list, truncates on a cold target and dispatches one  *)
(* job per tag.  Names are sequences of one-character strings, so that     *)
(* str::contains and Path::extension are computed, not assumed.            *)
(***************************************************************************)
EXTENDS Integers, Sequences, FiniteSets, TLC

VARIABLES
    options,        \* Options {dry_run, first_sync, force, parallelize}
    manifest,       \* Manifest.docker, each entry split on '/'
    registry,       \* image name -> the pages the registry serves for it
    fs,             \* repository -> [state, entries] of <directory>/<repository>
    run,            \* number of sync_manifest invocations started so far
    pc,             \* position of the running invocation
    img,            \* index in manifest.docker of the image being synced
    latest_sync,    \* sync_docker_image: latest_sync
    url,            \* tags_after_timestamp: url (the page to request next)
    tags,           \* tags_after_timestamp: tags
    tags_to_sync,   \* sync_docker_image: tags_to_sync after the truncation
    idx,            \* position of the for loop over tags_to_sync
    log,            \* every external effect the current run attempted
    slurm,          \* the jobs handed to sbatch that have not written yet
    fs0,            \* the filesystem as it was when the current run started
    last_run        \* the run before: how it ended and the jobs it issued

vars == <<options, manifest, registry, fs, run, pc, img, latest_sync,
          url, tags, tags_to_sync, idx, log, slurm, fs0, last_run>>

(***************************************************************************)
(* Bounds of the model.                                                    *)
(***************************************************************************)
MaxRuns == 2
MaxFirstSync == 2

(***************************************************************************)
(* Strings.                                                                *)
(***************************************************************************)
\* str::contains: needle occurs in hay as a contiguous substring
Contains(hay, needle) ==
    \E i \in 0..(Len(hay) - Len(needle)) :
        SubSeq(hay, i + 1, i + Len(needle)) = needle

NoExtension == <<"None">>

\* Path::extension: the part of the file name after its final '.', None when
\* there is no '.' or when the only '.' is the leading character
Extension(name) ==
    LET dots == {i \in 1..Len(name) : name[i] = "."}
    IN  IF dots = {} THEN NoExtension
        ELSE LET last == CHOOSE i \in dots : \A j \in dots : j <= i
             IN  IF last = 1 THEN NoExtension
                 ELSE SubSeq(name, last + 1, Len(name))

\* format!("{}-{}.sif", image, tag): the file name part of sif_path
SifName(image, tag) == image \o <<"-">> \o tag \o <<".", "s", "i", "f">>

go == <<"g", "o">>
gogs == <<"g", "o", "g", "s">>
library == "library"

\* image.rsplit('/'): image_split[0] is the last segment, image_split[1] the
\* one before it
ImageOf(reference) == reference[Len(reference)]
RepositoryOf(reference) == reference[Len(reference) - 1]

(***************************************************************************)
(* Time.                                                                   *)
(***************************************************************************)
\* SystemTime::UNIX_EPOCH
epoch == 0

(***************************************************************************)
(* Local State Scanner.                                                    *)
(***************************************************************************)
\* An entry as fs::read_dir yields it.  err: the iterator returned Err;
\* kind: what the path is; unicode: the file name converts to a String;
\* stat_ok: fs::metadata succeeds; mtime_ok: the platform reports a
\* modification time.
File(name, mtime) ==
    [err |-> FALSE, name |-> name, kind |-> "file", unicode |-> TRUE,
     stat_ok |-> TRUE, mtime_ok |-> TRUE, mtime |-> mtime]

\* Path::is_file: false when the path cannot be stat'd
is_file(entry) == entry.stat_ok /\ entry.kind = "file"

\* the filter chain without the test of the image name
ScanEntryAnyImage(entry, image) ==
    IF entry.err THEN <<>>
    ELSE IF ~is_file(entry) THEN <<>>
    ELSE IF Extension(entry.name) = NoExtension THEN <<>>
    ELSE IF Extension(entry.name) # <<"s", "i", "f">> THEN <<>>
    ELSE IF ~entry.unicode THEN <<>>
    ELSE IF ~entry.stat_ok THEN <<>>
    ELSE IF ~entry.mtime_ok THEN <<>>
    ELSE <<entry.mtime>>

\* the filter_map closure of lastest_sync_timestamp: <<>> is None, <<t>> is
\* Some(t)
ScanEntry(entry, image) ==
    IF entry.err THEN <<>>
    ELSE IF ~is_file(entry) THEN <<>>
    ELSE IF Extension(entry.name) = NoExtension THEN <<>>
    ELSE IF Extension(entry.name) # <<"s", "i", "f">> THEN <<>>
    ELSE IF ~entry.unicode THEN <<>>
    ELSE IF ~Contains(entry.name, image) THEN <<>>
    ELSE IF ~entry.stat_ok THEN <<>>
    ELSE IF ~entry.mtime_ok THEN <<>>
    ELSE <<entry.mtime>>

\* a fold that keeps the earlier of the two times
FoldMin(prev, curr) == IF prev = epoch \/ curr < prev THEN curr ELSE prev

\* the fold closure: keep the later of the two times
FoldMax(prev, curr) == IF prev < curr THEN curr ELSE prev

\* read_dir yields the entries of a directory in no particular order: a
\* directory is the set of its entries, and the fold takes them one by one
RECURSIVE FoldEntries(_, _, _)
FoldEntries(entries, image, acc) ==
    IF entries = {} THEN acc
    ELSE LET entry == CHOOSE e \in entries : TRUE
             m == ScanEntry(entry, image)
         IN  FoldEntries(entries \ {entry}, image,
                         IF m = <<>> THEN acc ELSE FoldMax(acc, m[1]))

lastest_sync_timestamp(entries, image) == FoldEntries(entries, image, epoch)

(***************************************************************************)
(* The inputs a run is given: manifests, directory listings, registries.   *)
(***************************************************************************)
Manifests == { << <<library, gogs>> >>, << <<library, gogs>>, <<library, go>> >> }

Images == {go, gogs}
Repositories == {library}

\* go-2.sif is the newest artifact of image go; neither file matches gogs
DirSynced ==
    { File(SifName(go, <<"1">>), 1), File(SifName(go, <<"2">>), 2) }

\* one entry for every way the scan skips an entry, and one artifact
DirMixed ==
    { [File(<<>>, 3) EXCEPT !.err = TRUE],
       [File(SifName(go, <<"9">>), 3) EXCEPT !.kind = "dir"],
       File(<<"g", "o", "-", "3">>, 3),
       File(<<"g", "o", "-", "3", ".", "t", "x", "t">>, 3),
       File(<<".", "s", "i", "f">>, 3),
       [File(SifName(gogs, <<"6">>), 3) EXCEPT !.unicode = FALSE],
       [File(SifName(gogs, <<"7">>), 3) EXCEPT !.stat_ok = FALSE],
       [File(SifName(gogs, <<"8">>), 3) EXCEPT !.mtime_ok = FALSE],
       File(SifName(gogs, <<"1">>), 1) }

Directories ==
    { [state |-> "absent", entries |-> {}],
      [state |-> "file", entries |-> {}],
      [state |-> "dir", entries |-> DirSynced],
      [state |-> "dir", entries |-> DirMixed] }

\* Tag {name, last_updated}
Tag(name, last_updated) == [name |-> name, last_updated |-> last_updated]

\* TagResponse {next, results}; next = 0 is null, otherwise the page the
\* locator leads to
Page(results, next) == [results |-> results, next |-> next]

RegEmpty == << Page(<<>>, 0) >>

RegOnePage == << Page(<< Tag(<<"2">>, 3), Tag(<<"1">>, 1) >>, 0) >>

RegThreePages ==
    << Page(<< Tag(<<"3", "-", "r", "c", "1">>, 3) >>, 2),
       Page(<< Tag(<<"3">>, 3) >>, 3),
       Page(<< Tag(<<"1">>, 1) >>, 0) >>

Registries == {RegEmpty, RegOnePage, RegThreePages}

\* what the registry serves for image go
RegGo == << Page(<< Tag(<<"2">>, 3) >>, 0) >>

\* the time of the runs, which follow each other closely: it is past every
\* last_updated above, and it stamps the artifacts the builds write
Now == 4

Init ==
    /\ options \in [dry_run : BOOLEAN, first_sync : 0..MaxFirstSync,
                    force : BOOLEAN, parallelize : BOOLEAN]
    /\ manifest \in Manifests
    /\ \E pages \in Registries :
          registry = [i \in Images |-> IF i = gogs THEN pages ELSE RegGo]
    /\ \E d \in Directories : fs = [r \in Repositories |-> d]
    /\ run = 0
    /\ pc = "idle"
    /\ img = 0
    /\ latest_sync = epoch
    /\ url = 0
    /\ tags = <<>>
    /\ tags_to_sync = <<>>
    /\ idx = 0
    /\ log = <<>>
    /\ slurm = {}
    /\ fs0 = fs
    /\ last_run = [result |-> "idle", jobs |-> <<>>]

(***************************************************************************)
(* Helpers of the actions.                                                 *)
(***************************************************************************)
image == ImageOf(manifest[img])
repository == RepositoryOf(manifest[img])

Event(kind, tag, page, outcome) ==
    [run |-> run, img |-> img, kind |-> kind, tag |-> tag, page |-> page,
     outcome |-> outcome]

Exists(entries, name) == \E e \in entries : ~e.err /\ e.name = name

\* what a successful singularity build leaves behind: the artifact, created
\* or replaced, stamped with the current time
WriteArtifact(entries, name) ==
    {e \in entries : e.err \/ e.name # name} \cup {File(name, Now)}

\* singularity build refuses to replace an existing target unless given -F
BuildCanSucceed(entries, name, force) == force \/ ~Exists(entries, name)

Finished == pc \in {"idle", "ok", "err", "panic"}

\* an event of run_sync_command
IsJob(event) ==
    event.kind \in {"print_command", "print_script", "singularity", "sbatch"}

(***************************************************************************)
(* sync_manifest and sync_docker_image.                                    *)
(***************************************************************************)
\* main calls sync_manifest: the for loop starts at the first image
StartRun ==
    /\ Finished
    /\ run < MaxRuns
    /\ run' = run + 1
    /\ fs0' = fs
    /\ img' = 1
    /\ pc' = IF manifest = <<>> THEN "ok" ELSE "check_dir"
    /\ latest_sync' = epoch
    /\ url' = 0
    /\ tags' = <<>>
    /\ tags_to_sync' = <<>>
    /\ idx' = 0
    /\ log' = <<>>
    /\ last_run' = [result |-> pc, jobs |-> SelectSeq(log, IsJob)]
    /\ UNCHANGED <<options, manifest, registry, fs, slurm>>

\* sync_manifest and main end: Ok(()), an Err passed up by ?, or a panic
Leave(how) == pc' = how

\* a directory check that creates the directory whatever options.force says
CheckDirAlwaysCreates ==
    /\ pc = "check_dir"
    /\ IF fs[repository].state = "dir"
       THEN /\ pc' = "scan"
            /\ UNCHANGED <<fs, log>>
       ELSE IF fs[repository].state = "absent"
            THEN /\ fs' = [fs EXCEPT ![repository] =
                              [state |-> "dir", entries |-> {}]]
                 /\ log' = Append(log, Event("create_dir", <<>>, 0, "ok"))
                 /\ pc' = "scan"
            ELSE /\ log' = Append(log, Event("create_dir", <<>>, 0, "error"))
                 /\ Leave("err")
                 /\ UNCHANGED fs
    /\ UNCHANGED <<options, manifest, registry, run, img, latest_sync,
                   url, tags, tags_to_sync, idx, slurm, fs0, last_run>>

\* if !image_dir.is_dir() { if options.force { create_dir? } else { Err } }
\* fs::create_dir fails when something that is not a directory has the name
CheckDir ==
    /\ pc = "check_dir"
    /\ IF fs[repository].state = "dir"
       THEN /\ pc' = "scan"
            /\ UNCHANGED <<fs, log>>
       ELSE IF options.force
            THEN IF fs[repository].state = "absent"
                 THEN /\ fs' = [fs EXCEPT ![repository] =
                                   [state |-> "dir", entries |-> {}]]
                      /\ log' = Append(log, Event("create_dir", <<>>, 0, "ok"))
                      /\ pc' = "scan"
                      ELSE /\ log' = Append(log,
                                       Event("create_dir", <<>>, 0, "error"))
                      /\ Leave("err")
                      /\ UNCHANGED fs
            ELSE /\ Leave("err")
                 /\ UNCHANGED <<fs, log>>
    /\ UNCHANGED <<options, manifest, registry, run, img, latest_sync,
                   url, tags, tags_to_sync, idx, slurm, fs0, last_run>>

\* let latest_sync = lastest_sync_timestamp(&image_dir, &image)?; then
\* tags_after_timestamp starts with the first page's url and no tags
Scan ==
    /\ pc = "scan"
    /\ latest_sync' = lastest_sync_timestamp(fs[repository].entries, image)
    /\ log' = Append(log, Event("read_dir", <<>>, 0, "ok"))
    /\ url' = 1
    /\ tags' = <<>>
    /\ pc' = "fetch"
    /\ UNCHANGED <<options, manifest, registry, fs, run, img,
                   tags_to_sync, idx, slurm, fs0, last_run>>

\* if tag.last_updated > latest_sync
Newer(tag, mark) == tag.last_updated > mark

\* response.results.iter().for_each(... tags.push(tag.name.clone()))
RECURSIVE PushNewer(_, _, _)
PushNewer(acc, results, mark) ==
    IF results = <<>> THEN acc
    ELSE PushNewer(IF Newer(Head(results), mark)
                   THEN Append(acc, Head(results).name) ELSE acc,
                   Tail(results), mark)

\* a failed request taken for the end of the pages
FetchFailedKeepsGoing ==
    /\ pc = "fetch"
    /\ \E why \in {"transport", "deserialize"} :
          log' = Append(log, Event("get", <<>>, url, why))
    /\ pc' = "truncate"
    /\ UNCHANGED <<options, manifest, registry, fs, run, img,
                   latest_sync, url, tags, tags_to_sync, idx, slurm, fs0, last_run>>

\* reqwest::blocking::get(&url)?, response.text()?, serde_json::from_str(..)?
\* with the request or the parse failing
FetchFailed ==
    /\ pc = "fetch"
    /\ \E why \in {"transport", "deserialize"} :
          log' = Append(log, Event("get", <<>>, url, why))
    /\ Leave("err")
    /\ UNCHANGED <<options, manifest, registry, fs, run, img,
                   latest_sync, url, tags, tags_to_sync, idx, slurm, fs0, last_run>>

\* a loop that breaks after its first page
NextUrlFirstPageOnly(response) == 0

\* match response.next { Some(next) => url = next, _ => break }
NextUrl(response) == response.next

\* one turn of the loop with the page fetched and parsed
FetchPage ==
    /\ pc = "fetch"
    /\ LET response == registry[image][url]
       IN  /\ tags' = PushNewer(tags, response.results, latest_sync)
           /\ log' = Append(log, Event("get", <<>>, url, "ok"))
           /\ IF NextUrl(response) = 0
              THEN pc' = "truncate" /\ UNCHANGED url
              ELSE pc' = "fetch" /\ url' = NextUrl(response)
    /\ UNCHANGED <<options, manifest, registry, fs, run, img,
                   latest_sync, tags_to_sync, idx, slurm, fs0, last_run>>

\* the last n of the list instead of the first
BootstrapLast(list, n) == SubSeq(list, Len(list) - n + 1, Len(list))

\* &tags_to_sync[0..options.first_sync], for n within the list
Bootstrap(list, n) == SubSeq(list, 1, n)

\* let tags_to_sync = if latest_sync == epoch { &tags_to_sync[0..first_sync] }
\* else { tags_to_sync.as_slice() }; the slice panics when the range ends
\* past the list
Truncate ==
    /\ pc = "truncate"
    /\ IF latest_sync = epoch
       THEN IF options.first_sync > Len(tags)
            THEN /\ Leave("panic")
                 /\ UNCHANGED <<tags_to_sync, idx>>
            ELSE /\ tags_to_sync' = Bootstrap(tags, options.first_sync)
                 /\ idx' = 1
                 /\ pc' = "dispatch"
       ELSE /\ tags_to_sync' = tags
            /\ idx' = 1
            /\ pc' = "dispatch"
    /\ UNCHANGED <<options, manifest, registry, fs, run, img,
                   latest_sync, url, tags, log, slurm, fs0, last_run>>

\* the for loop over tags_to_sync is exhausted: Ok(()), and sync_manifest
\* goes on to the next image or returns Ok(())
NextImage ==
    /\ pc = "dispatch"
    /\ idx > Len(tags_to_sync)
    /\ IF img < Len(manifest)
       THEN /\ img' = img + 1
            /\ pc' = "check_dir"
       ELSE /\ Leave("ok")
            /\ UNCHANGED img
    /\ UNCHANGED <<options, manifest, registry, fs, run, latest_sync,
                   url, tags, tags_to_sync, idx, log, slurm, fs0, last_run>>

(***************************************************************************)
(* Job Dispatcher.                                                         *)
(***************************************************************************)
Dispatching == pc = "dispatch" /\ idx <= Len(tags_to_sync)

\* slurm_sync_command: the script is printed under dry_run; otherwise sbatch
\* is spawned and the script written to its stdin, and nobody waits for it
slurm_sync_command ==
    /\ Dispatching
    /\ options.parallelize
    /\ LET tag == tags_to_sync[idx]
       IN  IF options.dry_run
           THEN /\ log' = Append(log, Event("print_script", tag, 0, "ok"))
                /\ idx' = idx + 1
                /\ UNCHANGED <<pc, slurm>>
           ELSE \E outcome \in {"spawn_error", "write_error", "submitted"} :
                  /\ log' = Append(log, Event("sbatch", tag, 0, outcome))
                  /\ IF outcome = "submitted"
                     THEN /\ slurm' = slurm \cup
                                {[repository |-> repository,
                                  image |-> image, tag |-> tag,
                                  force |-> options.force]}
                          /\ idx' = idx + 1
                          /\ UNCHANGED pc
                     ELSE /\ Leave("err")
                          /\ UNCHANGED <<slurm, idx>>
    /\ UNCHANGED <<options, manifest, registry, fs, run, img,
                   latest_sync, url, tags, tags_to_sync, fs0, last_run>>

\* run_sync_command without parallelize: the command is printed under
\* dry_run; otherwise singularity is run to completion with
\* command...status()?, whose Err is a failure to start the process
run_sync_command ==
    /\ Dispatching
    /\ ~options.parallelize
    /\ LET tag == tags_to_sync[idx]
           sif == SifName(image, tag)
       IN  IF options.dry_run
           THEN /\ log' = Append(log, Event("print_command", tag, 0, "ok"))
                /\ idx' = idx + 1
                /\ UNCHANGED <<pc, fs>>
           ELSE \E outcome \in {"spawn_error", "success", "failure"} :
                  /\ outcome = "success" =>
                        BuildCanSucceed(fs[repository].entries, sif,
                                        options.force)
                  /\ log' = Append(log, Event("singularity", tag, 0, outcome))
                  /\ IF outcome = "spawn_error"
                     THEN /\ Leave("err")
                          /\ UNCHANGED <<fs, idx>>
                     ELSE /\ fs' = IF outcome = "success"
                                   THEN [fs EXCEPT ![repository].entries =
                                           WriteArtifact(@, sif)]
                                   ELSE fs
                          /\ idx' = idx + 1
                          /\ UNCHANGED pc
    /\ UNCHANGED <<options, manifest, registry, run, img, latest_sync,
                   url, tags, tags_to_sync, slurm, fs0, last_run>>

\* the scheduler runs a submitted script, singularity build [-F] sif uri, to
\* a successful end, at any time and in any order.  A job that fails, or is
\* never started, leaves the directory as it was and stays in the queue: the
\* program never looks at the queue, only at the directory.  Two jobs with
\* the same script write the same file, so the queue is a set of scripts
SlurmJobRuns ==
    /\ \E job \in slurm :
          LET sif == SifName(job.image, job.tag)
          IN  /\ BuildCanSucceed(fs[job.repository].entries, sif, job.force)
              /\ slurm' = slurm \ {job}
              /\ fs' = [fs EXCEPT ![job.repository].entries =
                          WriteArtifact(@, sif)]
    /\ UNCHANGED <<options, manifest, registry, run, pc, img,
                   latest_sync, url, tags, tags_to_sync, idx, log, fs0, last_run>>

Next ==
    \/ StartRun
    \/ CheckDir
    \/ Scan
    \/ FetchPage
    \/ FetchFailed
    \/ Truncate
    \/ NextImage
    \/ run_sync_command
    \/ slurm_sync_command
    \/ SlurmJobRuns

Spec == Init /\ [][Next]_vars

(***************************************************************************)
(* Vocabulary of the properties.                                           *)
(***************************************************************************)
\* the default banned substrings: latest, dev, rc, test, unstable
Banned ==
    { <<"l", "a", "t", "e", "s", "t">>, <<"d", "e", "v">>, <<"r", "c">>,
      <<"t", "e", "s", "t">>, <<"u", "n", "s", "t", "a", "b", "l", "e">> }

ContainsBanned(name) == \E b \in Banned : Contains(name, b)

\* the tags of the jobs that events records for image number i, in order
RECURSIVE JobTags(_, _)
JobTags(events, i) ==
    IF events = <<>> THEN <<>>
    ELSE IF IsJob(Head(events)) /\ Head(events).img = i
         THEN <<Head(events).tag>> \o JobTags(Tail(events), i)
         ELSE JobTags(Tail(events), i)

\* the pages the registry serves for an image, first to last, as one list
RECURSIVE AllResults(_, _)
AllResults(pages, p) ==
    IF p = 0 THEN <<>>
    ELSE pages[p].results \o AllResults(pages, pages[p].next)

\* the names of a list of tag records, in the list's order
NamesOf(records) == [k \in 1..Len(records) |-> records[k].name]

\* the latest_sync and tags of the image being synced are settled
AfterFetch == pc \in {"truncate", "dispatch", "panic"}

(***************************************************************************)
(* C10  High-water mark derivation.                                        *)
(***************************************************************************)
\* the entries the claim counts: regular files that can be read and stat'd,
\* with extension sif, whose file name contains the image name
Artifacts(entries, name) ==
    {e \in entries :
        /\ ~e.err /\ e.stat_ok /\ e.kind = "file" /\ e.unicode /\ e.mtime_ok
        /\ Extension(e.name) = <<"s", "i", "f">>
        /\ Contains(e.name, name)}

\* C10: every scan leaves in latest_sync the greatest modification time
\* among the artifacts of the image in the directory scanned, and the epoch
\* when the directory holds no artifact of the image; no other entry of the
\* directory has any influence.
C10_HighWaterMark ==
    [][pc = "scan" /\ pc' = "fetch" =>
         LET mine == Artifacts(fs[repository].entries, image)
         IN  IF mine = {} THEN latest_sync' = epoch
             ELSE /\ \E e \in mine : latest_sync' = e.mtime
                  /\ \A e \in mine : e.mtime <= latest_sync']_vars

\* image gogs scanned in a directory whose newer artifacts all fail a test of
\* the chain, or belong to image go: the mark is that of gogs-1.sif
C10_Witness ==
    /\ pc = "fetch"
    /\ image = gogs
    /\ fs[repository].entries = DirMixed
    /\ latest_sync = 1

(***************************************************************************)
(* C9  Pagination completeness.                                            *)
(***************************************************************************)
\* the get events of the current run for image number i
Gets(i) == SelectSeq(log, LAMBDA e : e.kind = "get" /\ e.img = i)

\* C9: when tags_after_timestamp returns, it has requested every page of the
\* chain once, in order, the last one being the page whose next is null, and
\* its list is made of the tags newer than the mark of all those pages, in
\* the order of the responses.
C9_PaginationComplete ==
    pc = "truncate" =>
        LET pages == registry[image]
            newer(t) == t.last_updated > latest_sync
        IN  /\ tags = NamesOf(SelectSeq(AllResults(pages, 1), newer))
            /\ Len(Gets(img)) >= 1
            /\ Gets(img)[1].page = 1
            /\ \A k \in 1..Len(Gets(img)) :
                  /\ Gets(img)[k].outcome = "ok"
                  /\ IF k = Len(Gets(img))
                     THEN pages[Gets(img)[k].page].next = 0
                     ELSE /\ pages[Gets(img)[k].page].next # 0
                          /\ Gets(img)[k + 1].page =
                                pages[Gets(img)[k].page].next

\* three linked pages, and a tag of each of them in the list
C9_Witness ==
    /\ pc = "truncate"
    /\ registry[image] = RegThreePages
    /\ Len(Gets(img)) = 3
    /\ tags = << <<"3", "-", "r", "c", "1">>, <<"3">>, <<"1">> >>

(***************************************************************************)
(* C8  No partial tag lists.                                               *)
(***************************************************************************)
\* C8: a page request that fails is the last thing the run does: the run has
\* ended with an error, the request was not repeated and no job was
\* dispatched for the image, whatever earlier pages had delivered; and the
\* requests for an image's pages all come before its first job.
C8_NoPartialTagList ==
    \A k \in 1..Len(log) :
        log[k].kind = "get" =>
            /\ \A j \in 1..(k - 1) : ~(IsJob(log[j]) /\ log[j].img = log[k].img)
            /\ log[k].outcome # "ok" =>
                  /\ k = Len(log)
                  /\ pc = "err"
                  /\ JobTags(log, log[k].img) = <<>>
                  /\ \A j \in 1..(k - 1) :
                        ~(log[j].kind = "get" /\ log[j].img = log[k].img
                          /\ log[j].page = log[k].page)

\* the request for a later page failed after earlier pages had delivered tags
C8_Witness ==
    /\ pc = "err"
    /\ Len(log) >= 1
    /\ log[Len(log)].kind = "get"
    /\ log[Len(log)].outcome = "deserialize"
    /\ log[Len(log)].page = 3
    /\ Len(tags) = 2

(***************************************************************************)
(* C7  Bootstrap bound.                                                    *)
(***************************************************************************)
\* C7: on a cold target (the mark is the epoch) with more tags in the
\* filtered list than first_sync, the tags to sync are the first first_sync
\* tags of the list, in the list's order; on any other mark they are the
\* whole list; and the jobs dispatched so far for the image are the tags to
\* sync, one job each, in that order, all of them once the loop has ended.
C7_BootstrapBound ==
    pc = "dispatch" =>
        /\ (latest_sync = epoch /\ Len(tags) > options.first_sync) =>
              /\ Len(tags_to_sync) = options.first_sync
              /\ \A k \in 1..options.first_sync : tags_to_sync[k] = tags[k]
        /\ latest_sync # epoch => tags_to_sync = tags
        /\ idx <= Len(tags_to_sync) + 1
        /\ JobTags(log, img) = [k \in 1..(idx - 1) |-> tags_to_sync[k]]

\* a cold target, three tags upstream, first_sync = 2: two jobs, done
C7_Witness ==
    /\ pc = "dispatch"
    /\ latest_sync = epoch
    /\ options.first_sync = 2
    /\ Len(tags) = 3
    /\ idx = 3
    /\ JobTags(log, img) = << <<"3", "-", "r", "c", "1">>, <<"3">> >>

(***************************************************************************)
(* C6  Missing-directory policy.                                           *)
(***************************************************************************)
\* C6: when nothing exists at <base>/<repository>, the directory check
\* without force ends the run with an error, with no scan, no request and no
\* job, and the filesystem as it was; with force it creates the directory
\* and goes on to the scan.
C6_MissingDirectoryPolicy ==
    [][(pc = "check_dir" /\ pc' # pc /\ fs[repository].state = "absent") =>
         IF options.force
         THEN /\ fs'[repository] = [state |-> "dir", entries |-> {}]
              /\ pc' = "scan"
         ELSE /\ pc' = "err"
              /\ fs' = fs
              /\ log' = log
              /\ slurm' = slurm]_vars

\* the directory was absent when the run started, force created it, and the
\* run has gone on to dispatch a tag of the image
C6_Witness ==
    /\ pc = "dispatch"
    /\ options.force
    /\ fs0[repository].state = "absent"
    /\ fs[repository].state = "dir"
    /\ img = 1
    /\ idx > 1

(***************************************************************************)
(* C1  Idempotence.                                                        *)
(***************************************************************************)
\* the artifact of a job of the previous run is in place, written by it
Built(event) ==
    \E e \in fs0[RepositoryOf(manifest[event.img])].entries :
        /\ ~e.err
        /\ e.name = SifName(ImageOf(manifest[event.img]), event.tag)
        /\ e.kind = "file"
        /\ e.mtime >= Now

AllBuilt ==
    \A k \in 1..Len(last_run.jobs) : Built(last_run.jobs[k])

NoJobs == \A k \in 1..Len(log) : ~IsJob(log[k])

NoneFailed ==
    \A k \in 1..Len(last_run.jobs) : last_run.jobs[k].outcome # "failure"

\* C1 as claimed, in either dispatch mode: a run that follows a run without
\* dry_run (one that returned Ok, no build process of which failed), the
\* registry serving the same pages, calls run_sync_command for no tag.
C1_IdempotenceAsClaimed ==
    (run >= 2 /\ ~options.dry_run /\ last_run.result = "ok" /\ NoneFailed)
        => NoJobs

\* C1: a run that follows a run without dry_run that returned Ok, every job
\* of which has written its artifact before the second run starts, the
\* registry serving the same pages, calls run_sync_command for no tag.
C1_IdempotenceOnceBuilt ==
    (run >= 2 /\ ~options.dry_run /\ last_run.result = "ok" /\ AllBuilt)
        => NoJobs

\* a second run that ended Ok without a job, after a first run whose two
\* jobs were handed to the scheduler and had written before it started
C1_Witness ==
    /\ run = 2
    /\ pc = "ok"
    /\ ~options.dry_run
    /\ options.parallelize
    /\ last_run.result = "ok"
    /\ Len(last_run.jobs) >= 2
    /\ AllBuilt
    /\ NoJobs

(***************************************************************************)
(* C2  Dry-run purity.                                                     *)
(***************************************************************************)
\* C2: a run with dry_run starts no external process and writes nothing:
\* the filesystem stays as it was when the run started, also when a target
\* directory is absent.
C2_DryRunPure ==
    options.dry_run =>
        /\ fs = fs0
        /\ \A k \in 1..Len(log) :
              log[k].kind \notin {"singularity", "sbatch", "create_dir"}

(***************************************************************************)
(* C3  Bootstrap truncation on short lists.                                *)
(***************************************************************************)
\* C3: on a cold target whose filtered list has fewer tags than first_sync,
\* the truncation changes nothing: the run goes on to dispatch every tag of
\* the list, and does not fail.
C3_ShortListIsNoOp ==
    (AfterFetch /\ pc # "truncate" /\ latest_sync = epoch
        /\ Len(tags) < options.first_sync) =>
            /\ pc = "dispatch"
            /\ tags_to_sync = tags

(***************************************************************************)
(* C4  Relevance filter.                                                   *)
(***************************************************************************)
\* C4: the tags kept are those of the registry's response that are newer
\* than the mark and whose name contains no banned substring; no job is
\* ever dispatched for a tag whose name contains a banned substring.
C4_RelevanceFilter ==
    /\ AfterFetch =>
          LET relevant(t) ==
                  t.last_updated > latest_sync /\ ~ContainsBanned(t.name)
          IN  tags = NamesOf(SelectSeq(AllResults(registry[image], 1),
                                       relevant))
    /\ \A k \in 1..Len(log) : IsJob(log[k]) => ~ContainsBanned(log[k].tag)

(***************************************************************************)
(* C5  Direct-mode job failure.                                            *)
(***************************************************************************)
\* C5: a singularity process that exits with a failure status makes
\* run_sync_command return an error: the run ends there, with an error.
C5_DirectFailureReported ==
    \A k \in 1..Len(log) :
        (log[k].kind = "singularity" /\ log[k].outcome = "failure") =>
            /\ k = Len(log)
            /\ pc = "err"

====
